---- MODULE Spec2Model ----
(***************************************************************************)
(* const_for: the macro const_for! of src/src/lib.rs, lowered to the       *)
(* `while __start < __end { let $var = next!(...); { $body } }` loop it    *)
(* expands to, over a fixed-width integer element type.                    *)
(*                                                                         *)
(* One behaviour is one execution of one expanded loop.  The syntactic     *)
(* inputs (range, adapter chain, binding mode) and the build (element      *)
(* type, overflow checks) are chosen in Init and never change.             *)
(***************************************************************************)
EXTENDS Integers, Sequences, FiniteSets, TLC

\* Width in bits of the element type of the range (u<Bits> or i<Bits>).
Bits == 4
\* Largest argument of step_by the model draws.
MaxStep == 4
\* Cap on the number of values bound in one run (a release build whose
\* cursor wrapped may loop forever).
MaxHits == 17

VARIABLES
    range_start,     \* $range.start
    range_end,       \* $range.end
    adapter,         \* the chain $(.$adapter($($arg),*))*, a sequence of <<name, args>>
    signed,          \* the element type is i<Bits> (TRUE) or u<Bits> (FALSE)
    overflow_checks, \* debug build / const evaluation (TRUE) or release build (FALSE)
    mutable,         \* $var is `mut i` and the body is `i *= 2; v.push(i)`
    start,           \* __start
    end,             \* __end
    exhausted,       \* __exhausted of the running next!
    count,           \* count of the step_by arm
    val,             \* val of the step_by arm
    var,             \* $var
    pc,              \* "guard", "next", "skip", "body", "done", "panic"
    broke,           \* the loop was left by the body's break
    overflowed,      \* a cursor update left the element type
    bound,           \* the values $var was bound to, in order
    values_hit       \* the values the body pushed, in order

vars == <<range_start, range_end, adapter, signed, overflow_checks, mutable,
          start, end, exhausted, count, val, var, pc, broke, overflowed,
          bound, values_hit>>

----------------------------------------------------------------------------
(* The element type *)

TypeMin(sg) == IF sg THEN -(2 ^ (Bits - 1)) ELSE 0

TypeMax(sg) == IF sg THEN 2 ^ (Bits - 1) - 1 ELSE 2 ^ Bits - 1

InType(sg, x) == TypeMin(sg) <= x /\ x <= TypeMax(sg)

\* Two's complement wrap-around of a release build.
Wrap(sg, x) == TypeMin(sg) + ((x - TypeMin(sg)) % (2 ^ Bits))

----------------------------------------------------------------------------
(* The adapter chain *)

Rev == <<"rev", <<>>>>

StepBy(n) == <<"step_by", <<n>>>>

\* rev!: toggles the flag on a `rev` adapter, leaves it alone otherwise.
rev(flag, name) == IF name = "rev" THEN ~flag ELSE flag

\* is_rev!: folds rev! over the adapter names, from `let mut rev = false`.
RECURSIVE is_rev(_, _)
is_rev(flag, chain) ==
    IF chain = <<>> THEN flag
    ELSE is_rev(rev(flag, chain[1][1]), Tail(chain))

\* adapters!: wraps the raw step in one adapter! per element of the chain.
\* The rev arm is `$inner`, so what is left around the raw step is the
\* sequence of step_by arguments.
RECURSIVE adapters(_)
adapters(chain) ==
    IF chain = <<>> THEN <<>>
    ELSE IF chain[1][1] = "step_by"
         THEN <<chain[1][2][1]>> \o adapters(Tail(chain))
         ELSE adapters(Tail(chain))

----------------------------------------------------------------------------
(* The raw step: the block handed to adapters! by next! *)

\* The cursor a raw step moves, before wrapping.
RawTarget(rv, st, en) == IF rv THEN en - 1 ELSE st + 1

RawOverflows(sg, rv, st, en) == ~InType(sg, RawTarget(rv, st, en))

\* RawStep with the reversed value read before the decrement
\* (`let val = $end; $end -= 1; val`).
RawStepRevPostDecrement(sg, rv, st, en, ex) ==
    LET st2 == IF rv THEN st ELSE Wrap(sg, st + 1)
        en2 == IF rv THEN Wrap(sg, en - 1) ELSE en
    IN  [val       |-> IF rv THEN en ELSE st,
         start     |-> st2,
         end       |-> en2,
         exhausted |-> (ex \/ st2 = en2)]

\* `if rev { $end -= 1; $end } else { let val = $start; $start += 1; val }`
\* followed by `if $start == $end { __exhausted = true }`.
RawStep(sg, rv, st, en, ex) ==
    LET st2 == IF rv THEN st ELSE Wrap(sg, st + 1)
        en2 == IF rv THEN Wrap(sg, en - 1) ELSE en
    IN  [val       |-> IF rv THEN en2 ELSE st,
         start     |-> st2,
         end       |-> en2,
         exhausted |-> (ex \/ st2 = en2)]

----------------------------------------------------------------------------
(* Inputs *)

StepArgs == 0..MaxStep

\* The chains the documentation calls legal: none, rev, step_by, and the
\* two orders of rev with step_by.
AdapterChains ==
    {<<>>, <<Rev>>}
    \cup {<<StepBy(n)>> : n \in StepArgs}
    \cup {<<Rev, StepBy(n)>> : n \in StepArgs}
    \cup {<<StepBy(n), Rev>> : n \in StepArgs}

\* `let mut __start = $range.start; let mut __end = $range.end;`
Init ==
    /\ signed \in BOOLEAN
    /\ overflow_checks \in BOOLEAN
    /\ mutable \in BOOLEAN
    /\ adapter \in AdapterChains
    /\ range_start \in TypeMin(signed)..TypeMax(signed)
    /\ range_end \in TypeMin(signed)..TypeMax(signed)
    /\ start = range_start
    /\ end = range_end
    /\ exhausted = FALSE
    /\ count = 0
    /\ val = 0
    /\ var = 0
    /\ pc = "guard"
    /\ broke = FALSE
    /\ overflowed = FALSE
    /\ bound = <<>>
    /\ values_hit = <<>>

----------------------------------------------------------------------------
(* The expanded loop *)

\* Bind with the next value offset by what the body did to the previous one
\* (the loop variable doubling as the cursor).
BindFromVar(v) ==
    /\ var' = IF bound = <<>> THEN v ELSE v + (var - bound[Len(bound)])
    /\ bound' = Append(bound, IF bound = <<>> THEN v
                              ELSE v + (var - bound[Len(bound)]))
    /\ pc' = "body"

\* `let $var = <value of next!>;` and entry into the body block.
Bind(v) ==
    /\ var' = v
    /\ bound' = Append(bound, v)
    /\ pc' = "body"

\* LoopGuard with an inclusive comparison (`while __start <= __end`).
LoopGuardInclusive ==
    /\ pc = "guard"
    /\ Len(bound) < MaxHits
    /\ pc' = IF start <= end THEN "next" ELSE "done"
    /\ UNCHANGED <<range_start, range_end, adapter, signed, overflow_checks,
                   mutable, start, end, exhausted, count, val, var, broke,
                   overflowed, bound, values_hit>>

\* `'__outer: while __start < __end`
LoopGuard ==
    /\ pc = "guard"
    /\ Len(bound) < MaxHits
    /\ pc' = IF start < end THEN "next" ELSE "done"
    /\ UNCHANGED <<range_start, range_end, adapter, signed, overflow_checks,
                   mutable, start, end, exhausted, count, val, var, broke,
                   overflowed, bound, values_hit>>

\* next!: `let mut rev = false; let mut __exhausted = false; is_rev!(...)`,
\* then the first evaluation of the raw step.  Without step_by its value is
\* the value of next!; with step_by it is `let mut count = $arg; let val =
\* $inner;`.
NextRaw ==
    /\ pc = "next"
    /\ LET rv == is_rev(FALSE, adapter)
           r  == RawStep(signed, rv, start, end, FALSE)
           st == adapters(adapter)
       IN  IF RawOverflows(signed, rv, start, end) /\ overflow_checks
           THEN /\ pc' = "panic"
                /\ overflowed' = TRUE
                /\ UNCHANGED <<start, end, exhausted, count, val, var, bound>>
           ELSE /\ start' = r.start
                /\ end' = r.end
                /\ exhausted' = r.exhausted
                /\ overflowed' = (overflowed \/ RawOverflows(signed, rv, start, end))
                /\ IF st = <<>>
                   THEN /\ Bind(r.val)
                        /\ UNCHANGED <<count, val>>
                   ELSE /\ count' = st[1]
                        /\ val' = r.val
                        /\ pc' = "skip"
                        /\ UNCHANGED <<var, bound>>
    /\ UNCHANGED <<range_start, range_end, adapter, signed, overflow_checks,
                   mutable, broke, values_hit>>

\* SkipStep with the skip loop written `while count != 1`.
SkipStepNotOne ==
    /\ pc = "skip"
    /\ count # 1
    /\ LET rv == is_rev(FALSE, adapter)
           r  == RawStep(signed, rv, start, end, exhausted)
       IN  IF RawOverflows(signed, rv, start, end) /\ overflow_checks
           THEN /\ pc' = "panic"
                /\ overflowed' = TRUE
                /\ UNCHANGED <<start, end, exhausted, count>>
           ELSE /\ start' = r.start
                /\ end' = r.end
                /\ exhausted' = r.exhausted
                /\ overflowed' = (overflowed \/ RawOverflows(signed, rv, start, end))
                /\ count' = count - 1
                /\ pc' = "skip"
    /\ UNCHANGED <<range_start, range_end, adapter, signed, overflow_checks,
                   mutable, val, var, broke, bound, values_hit>>

\* `while count > 1 { $inner; count -= 1; }`: one turn of the skip loop.
SkipStep ==
    /\ pc = "skip"
    /\ count > 1
    /\ LET rv == is_rev(FALSE, adapter)
           r  == RawStep(signed, rv, start, end, exhausted)
       IN  IF RawOverflows(signed, rv, start, end) /\ overflow_checks
           THEN /\ pc' = "panic"
                /\ overflowed' = TRUE
                /\ UNCHANGED <<start, end, exhausted, count>>
           ELSE /\ start' = r.start
                /\ end' = r.end
                /\ exhausted' = r.exhausted
                /\ overflowed' = (overflowed \/ RawOverflows(signed, rv, start, end))
                /\ count' = count - 1
                /\ pc' = "skip"
    /\ UNCHANGED <<range_start, range_end, adapter, signed, overflow_checks,
                   mutable, val, var, broke, bound, values_hit>>

\* The skip loop ends and the block's value `val` is bound to $var.
SkipDone ==
    /\ pc = "skip"
    /\ ~(count > 1)
    /\ Bind(val)
    /\ UNCHANGED <<range_start, range_end, adapter, signed, overflow_checks,
                   mutable, start, end, exhausted, count, val, broke,
                   overflowed, values_hit>>

\* Body whose break leaves only an inner loop: the outer loop goes on.
BodyBreakStaysInLoop ==
    /\ pc = "body"
    /\ LET v == IF mutable THEN var * 2 ELSE var
       IN  IF overflow_checks /\ ~InType(signed, v)
           THEN /\ pc' = "panic"
                /\ UNCHANGED <<var, values_hit, broke>>
           ELSE /\ var' = Wrap(signed, v)
                /\ values_hit' = Append(values_hit, Wrap(signed, v))
                /\ \E brk \in BOOLEAN :
                       /\ broke' = brk
                       /\ pc' = "guard"
    /\ UNCHANGED <<range_start, range_end, adapter, signed, overflow_checks,
                   mutable, start, end, exhausted, count, val, overflowed,
                   bound>>

\* `{ $body }`: the body of the tests, `v.push(i)`, after `i *= 2` when the
\* binding is `mut i`; it then either breaks or runs to its end (continue).
Body ==
    /\ pc = "body"
    /\ LET v == IF mutable THEN var * 2 ELSE var
       IN  IF overflow_checks /\ ~InType(signed, v)
           THEN /\ pc' = "panic"
                /\ UNCHANGED <<var, values_hit, broke>>
           ELSE /\ var' = Wrap(signed, v)
                /\ values_hit' = Append(values_hit, Wrap(signed, v))
                /\ \E brk \in BOOLEAN :
                       /\ broke' = brk
                       /\ pc' = IF brk THEN "done" ELSE "guard"
    /\ UNCHANGED <<range_start, range_end, adapter, signed, overflow_checks,
                   mutable, start, end, exhausted, count, val, overflowed,
                   bound>>

Next == LoopGuard \/ NextRaw \/ SkipStep \/ SkipDone \/ Body

Spec == Init /\ [][Next]_vars

----------------------------------------------------------------------------
(* Native iteration, as the reference the claims compare with *)

Max(a, b) == IF a >= b THEN a ELSE b

CeilDiv(a, b) == (a + b - 1) \div b

Reverse(q) == [i \in 1..Len(q) |-> q[Len(q) + 1 - i]]

IsPrefix(p, q) == Len(p) <= Len(q) /\ \A i \in 1..Len(p) : p[i] = q[i]

\* (s..e).step_by(n), n >= 1
NativeStepBy(s, e, n) ==
    [i \in 1..CeilDiv(Max(e - s, 0), n) |-> s + (i - 1) * n]

\* (s..e).rev().step_by(n), n >= 1
NativeRevStepBy(s, e, n) ==
    [i \in 1..CeilDiv(Max(e - s, 0), n) |-> e - 1 - (i - 1) * n]

\* s..e
NativeRange(s, e) == NativeStepBy(s, e, 1)

\* The loop ran to its end: the guard failed, the body did not break.
Finished == pc = "done" /\ ~broke

\* The body is run on exactly the sequence q: on a prefix of it while the
\* loop runs, on all of it once the loop has ended.
Produces(q) == IsPrefix(bound, q) /\ (Finished => bound = q)

\* The run was aborted by an overflowing cursor update.
CursorPanic == pc = "panic" /\ overflowed

StepArgOf(chain) == adapters(chain)[1]

HasStep == adapters(adapter) # <<>>

----------------------------------------------------------------------------
(* Claims *)

\* C1: for every range [s, e) and stride n >= 1, (s..e).step_by(n).rev()
\* runs the body on exactly the reverse of s, s+n, s+2n, ... (< e).
StepByRevMatchesNative ==
    \A n \in 1..MaxStep :
        adapter = <<StepBy(n), Rev>> =>
            Produces(Reverse(NativeStepBy(range_start, range_end, n)))

\* C2: for every range [s, e) and stride n >= 1, (s..e).rev().step_by(n)
\* runs the body on exactly e-1, e-1-n, e-1-2n, ... (>= s), to the end.
RevStepByMatchesNative ==
    \A n \in 1..MaxStep :
        adapter = <<Rev, StepBy(n)>> =>
            /\ Produces(NativeRevStepBy(range_start, range_end, n))
            /\ ~CursorPanic

\* C3: for every range [s, e) and stride n >= 1, (s..e).step_by(n) runs the
\* body on exactly s, s+n, s+2n, ... (< e), ceil((e-s)/n) values, none >= e.
StepByMatchesNative ==
    \A n \in 1..MaxStep :
        adapter = <<StepBy(n)>> =>
            /\ Produces(NativeStepBy(range_start, range_end, n))
            /\ ~CursorPanic
            /\ \A i \in 1..Len(bound) : bound[i] < range_end
            /\ Finished =>
                   Len(bound) = IF range_start < range_end
                                THEN CeilDiv(range_end - range_start, n)
                                ELSE 0

\* C4: for every range [s, e), (s..e).rev() runs the body on exactly
\* e-1, e-2, ..., s, the reverse of the unmodified loop's sequence, and on
\* nothing when s >= e; no cursor update leaves the element type.
RevMatchesNative ==
    adapter = <<Rev>> =>
        /\ Produces(Reverse(NativeRange(range_start, range_end)))
        /\ (range_start >= range_end => bound = <<>>)
        /\ ~overflowed

\* A finished (s..e).rev() loop over a range of at least three values.
RevWitness ==
    /\ adapter = <<Rev>>
    /\ Finished
    /\ Len(bound) >= 3
    /\ bound[1] = range_end - 1
    /\ bound[Len(bound)] = range_start

\* C5: for every range [s, e), the loop without modifiers runs the body on
\* exactly s, s+1, ..., e-1: zero times when s >= e, once when e = s+1; no
\* cursor update leaves the element type.
RangeMatchesNative ==
    adapter = <<>> =>
        /\ Produces(NativeRange(range_start, range_end))
        /\ (range_start >= range_end => bound = <<>>)
        /\ (Finished /\ range_end = range_start + 1 => bound = <<range_start>>)
        /\ ~overflowed

\* A finished unmodified loop over a range from a negative to a positive value.
RangeWitness ==
    /\ adapter = <<>>
    /\ Finished
    /\ range_start = -2
    /\ range_end = 3
    /\ bound = <<-2, -1, 0, 1, 2>>

\* C6: for every range with s <= e the cursors satisfy
\* s <= __start <= __end <= e in every reachable state.
CursorsWithinRange ==
    range_start <= range_end =>
        /\ range_start <= start
        /\ start <= end
        /\ end <= range_end

\* C7: a body that breaks during its k-th evaluation leaves exactly k
\* evaluations done, nothing is produced afterwards and control is after
\* the whole loop, not in the skip loop of step_by.
BreakExitsLoop ==
    broke =>
        /\ pc = "done"
        /\ Len(bound) >= 1
        /\ Len(values_hit) = Len(bound)

\* A loop with a stride left by break in its third evaluation, values left.
BreakWitness ==
    /\ broke
    /\ pc = "done"
    /\ HasStep
    /\ StepArgOf(adapter) >= 2
    /\ Len(values_hit) = 3
    /\ start < end

\* C8: with step_by(0), in either direction and order, every produced value
\* consumes one raw cursor step, so at most e-s values are produced.
ZeroStepProgress ==
    (HasStep /\ StepArgOf(adapter) = 0) =>
        /\ ~overflowed
        /\ Len(bound) <= Max(range_end - range_start, 0)
        /\ range_start < range_end =>
               (end - start) + Len(bound) + (IF pc = "skip" THEN 1 ELSE 0)
                   = range_end - range_start

\* A finished step_by(0).rev() loop that produced the whole range.
ZeroStepWitness ==
    /\ adapter = <<StepBy(0), Rev>>
    /\ Finished
    /\ Len(bound) = 3
    /\ Len(bound) = range_end - range_start

\* What the cursors produce when no cursor update overflows: from s upward
\* or from e-1 downward, by the stride (a stride of 0 advances by 1).
CursorSequence ==
    LET m == IF HasStep THEN Max(StepArgOf(adapter), 1) ELSE 1
    IN  IF is_rev(FALSE, adapter)
        THEN NativeRevStepBy(range_start, range_end, m)
        ELSE NativeStepBy(range_start, range_end, m)

\* C9: with a `mut` loop variable the body's reassignment changes neither
\* the cursors nor the skip counter, and the values bound at the start of
\* each iteration are those the cursors give, as with an immutable binding
\* (`mut i in 0..4` with `i *= 2` pushes 0, 2, 4, 6).
MutableBindingIsolated ==
    /\ [][pc = "body" =>
            /\ start' = start
            /\ end' = end
            /\ count' = count
            /\ bound' = bound]_vars
    /\ [](~overflowed => IsPrefix(bound, CursorSequence))
    /\ [](~overflowed /\ Finished => bound = CursorSequence)
    /\ [](/\ mutable
          /\ adapter = <<>>
          /\ range_start = 0
          /\ range_end = 4
          /\ Finished
          => values_hit = <<0, 2, 4, 6>>)

\* The documented `mut i in 0..4` loop, finished, the body having doubled i.
MutableWitness ==
    /\ mutable
    /\ adapter = <<>>
    /\ range_start = 0
    /\ range_end = 4
    /\ Finished
    /\ bound = <<0, 1, 2, 3>>
    /\ values_hit = <<0, 2, 4, 6>>

\* C10: over a w-bit element type no cursor update overflows or underflows
\* the type.
NoCursorOverflow == ~overflowed

====
